---- MODULE Spec2Model ----
(***************************************************************************)
(* Three introductory Rust exercises, each modelled as a state machine:    *)
(*   - examples/the_twelve_days_of_christmas: the cumulative song printer  *)
(*   - examples/coins: counting the non-quarter coins of a list            *)
(*   - examples/temperature: two Fahrenheit-to-Celsius functions on f64    *)
(* Every println! is one step; the console is the sequence of lines        *)
(* written so far.                                                         *)
(***************************************************************************)
EXTENDS Integers, Sequences, FiniteSets, TLC

VARIABLES
    pc,      \* twelve days: position of main
    day,     \* twelve days: cursor of the range 0..TOTAL_DAYS
    line,    \* twelve days: cursor of (0..=day).rev() inside print_lyrics
    out,     \* twelve days: lines written to stdout
    runs,    \* twelve days: number of invocations of main started so far
    days,    \* twelve days: the DAYS table
    lyrics,  \* twelve days: the LYRICS table
    cpc,     \* coins: position of main
    coins,   \* coins: the vector iterated by main
    ci,      \* coins: number of coins consumed by the for loop
    count,   \* coins: the counter
    cout,    \* coins: lines written to stdout
    temperature, \* temperature: the f64 argument of the calls
    r1,      \* temperature: what fahrenheit_to_celsius_v1 returned last
    r2       \* temperature: what fahrenheit_to_celsius_v2 returned last

daysVars == <<pc, day, line, out, runs, days, lyrics>>
coinVars == <<cpc, coins, ci, count, cout>>
tempVars == <<temperature, r1, r2>>
vars == <<pc, day, line, out, runs, days, lyrics, cpc, coins, ci, count, cout,
          temperature, r1, r2>>

(***************************************************************************)
(* Bounds of the model.                                                    *)
(***************************************************************************)
\* how many times in sequence main of the twelve-days program is invoked
MaxRuns == 2
\* longest coin vector main of the coins program is run on
MaxCoins == 5

(***************************************************************************)
(* examples/the_twelve_days_of_christmas/src/main.rs                       *)
(***************************************************************************)
TOTAL_DAYS == 12

DAYS ==
    << "first", "second", "third", "fourth", "fifth", "sixth", "seventh",
       "eighth", "ninth", "tenth", "eleventh", "twelfth" >>

LYRICS ==
    << "A partridge in a pear tree",
       "Two turtle doves and",
       "Three french hens",
       "Four calling birds",
       "Five golden rings",
       "Six geese a-laying",
       "Seven swans a-swimming",
       "Eight maids a-milking",
       "Nine ladies dancing",
       "Ten lords a-leaping",
       "Eleven pipers piping",
       "Twelve drummers drumming" >>

\* Rust indexes from 0, TLA+ sequences from 1: table[i] in the source is
\* At(table, i) here, and InBounds is the bounds check of the indexing.
InBounds(table, i) == i >= 0 /\ i < Len(table)
At(table, i) == table[i + 1]

\* a main that writes no title line
PrintTitle_silent ==
    /\ pc = "title"
    /\ pc' = "rule"
    /\ UNCHANGED <<day, line, out, runs, days, lyrics>>
    /\ UNCHANGED <<coinVars, tempVars>>

\* println!("The Twelve Days of Christmas");
PrintTitle ==
    /\ pc = "title"
    /\ out' = Append(out, "The Twelve Days of Christmas")
    /\ pc' = "rule"
    /\ UNCHANGED <<day, line, runs, days, lyrics>>
    /\ UNCHANGED <<coinVars, tempVars>>

\* a cursor that outlives the invocation: the range is not made anew
PrintRule_keeps_cursor ==
    /\ pc = "rule"
    /\ out' = Append(out, "----------------------------")
    /\ day' = day
    /\ pc' = "for_day"
    /\ UNCHANGED <<line, runs, days, lyrics>>
    /\ UNCHANGED <<coinVars, tempVars>>

\* a range that starts at 1: for day in 1..TOTAL_DAYS
PrintRule_from_one ==
    /\ pc = "rule"
    /\ out' = Append(out, "----------------------------")
    /\ day' = 1
    /\ pc' = "for_day"
    /\ UNCHANGED <<line, runs, days, lyrics>>
    /\ UNCHANGED <<coinVars, tempVars>>

\* println!("----------------------------"); then the range 0..TOTAL_DAYS is made
PrintRule ==
    /\ pc = "rule"
    /\ out' = Append(out, "----------------------------")
    /\ day' = 0
    /\ pc' = "for_day"
    /\ UNCHANGED <<line, runs, days, lyrics>>
    /\ UNCHANGED <<coinVars, tempVars>>

\* an inclusive range: for day in 0..=TOTAL_DAYS
ForDay_inclusive ==
    /\ pc = "for_day"
    /\ pc' = IF day <= TOTAL_DAYS THEN "blank" ELSE "done"
    /\ UNCHANGED <<day, line, out, runs, days, lyrics>>
    /\ UNCHANGED <<coinVars, tempVars>>

\* for day in 0..TOTAL_DAYS: the test of the range; main returns when it is spent
ForDay ==
    /\ pc = "for_day"
    /\ pc' = IF day < TOTAL_DAYS THEN "blank" ELSE "done"
    /\ UNCHANGED <<day, line, out, runs, days, lyrics>>
    /\ UNCHANGED <<coinVars, tempVars>>

\* println!();
PrintBlank ==
    /\ pc = "blank"
    /\ out' = Append(out, "")
    /\ pc' = "header"
    /\ UNCHANGED <<day, line, runs, days, lyrics>>
    /\ UNCHANGED <<coinVars, tempVars>>

\* a header that reads the label of the following day: DAYS[(day + 1) % TOTAL_DAYS]
print_first_verse_line_next_label ==
    /\ pc = "header"
    /\ IF InBounds(days, day)
       THEN /\ out' = Append(out, "On the " \o At(days, (day + 1) % TOTAL_DAYS)
                                  \o " day of Christmas my true love sent to me")
            /\ line' = day
            /\ pc' = "lyrics"
       ELSE /\ pc' = "panic"
            /\ UNCHANGED <<out, line>>
    /\ UNCHANGED <<day, runs, days, lyrics>>
    /\ UNCHANGED <<coinVars, tempVars>>

\* print_first_verse_line(day); on return main calls print_lyrics(day), whose
\* iterator (0..=day).rev() starts at day
print_first_verse_line ==
    /\ pc = "header"
    /\ IF InBounds(days, day)
       THEN /\ out' = Append(out, "On the " \o At(days, day)
                                  \o " day of Christmas my true love sent to me")
            /\ line' = day
            /\ pc' = "lyrics"
       ELSE /\ pc' = "panic"
            /\ UNCHANGED <<out, line>>
    /\ UNCHANGED <<day, runs, days, lyrics>>
    /\ UNCHANGED <<coinVars, tempVars>>

\* a verse loop without .rev(): the lines come out in ascending order
print_lyrics_ascending ==
    /\ pc = "lyrics"
    /\ IF InBounds(lyrics, day - line)
       THEN /\ out' = Append(out, At(lyrics, day - line))
            /\ IF line = 0
               THEN /\ pc' = "for_day"
                    /\ day' = day + 1
                    /\ line' = line
               ELSE /\ pc' = "lyrics"
                    /\ day' = day
                    /\ line' = line - 1
       ELSE /\ pc' = "panic"
            /\ UNCHANGED <<out, day, line>>
    /\ UNCHANGED <<runs, days, lyrics>>
    /\ UNCHANGED <<coinVars, tempVars>>

\* a verse loop that counts down with no stop at 0: while line >= 0 on an
\* unsigned index
print_lyrics_past_zero ==
    /\ pc = "lyrics"
    /\ IF InBounds(lyrics, line)
       THEN /\ out' = Append(out, At(lyrics, line))
            /\ pc' = "lyrics"
            /\ day' = day
            /\ line' = line - 1
       ELSE /\ pc' = "panic"
            /\ UNCHANGED <<out, day, line>>
    /\ UNCHANGED <<runs, days, lyrics>>
    /\ UNCHANGED <<coinVars, tempVars>>

\* one iteration of print_lyrics: println!("{}", LYRICS[line]); the reversed
\* inclusive range is spent after yielding 0, and the day loop moves on
print_lyrics ==
    /\ pc = "lyrics"
    /\ IF InBounds(lyrics, line)
       THEN /\ out' = Append(out, At(lyrics, line))
            /\ IF line = 0
               THEN /\ pc' = "for_day"
                    /\ day' = day + 1
                    /\ line' = line
               ELSE /\ pc' = "lyrics"
                    /\ day' = day
                    /\ line' = line - 1
       ELSE /\ pc' = "panic"
            /\ UNCHANGED <<out, day, line>>
    /\ UNCHANGED <<runs, days, lyrics>>
    /\ UNCHANGED <<coinVars, tempVars>>

\* one step of a run of main
MainStep ==
    \/ PrintTitle
    \/ PrintRule
    \/ ForDay
    \/ PrintBlank
    \/ print_first_verse_line
    \/ print_lyrics

\* main is invoked again after it returned
Rerun ==
    /\ pc = "done"
    /\ runs < MaxRuns
    /\ runs' = runs + 1
    /\ pc' = "title"
    /\ UNCHANGED <<day, line, out, days, lyrics>>
    /\ UNCHANGED <<coinVars, tempVars>>

NextDays == MainStep \/ Rerun

(***************************************************************************)
(* examples/coins/src/main.rs                                              *)
(***************************************************************************)
UsState == {"Alabama", "Alaska"}

Penny == [kind |-> "Penny"]
Nickel == [kind |-> "Nickel"]
Dime == [kind |-> "Dime"]
Quarter(state) == [kind |-> "Quarter", state |-> state]

Coin == {Penny, Nickel, Dime} \cup {Quarter(s) : s \in UsState}

\* the vector main builds
BuiltInCoins == <<Penny, Nickel, Quarter("Alabama"), Dime, Quarter("Alaska")>>

CoinLists == UNION {[1..n -> Coin] : n \in 0..MaxCoins}

\* a loop that counts every coin, the quarters too
CoinStep_counts_all ==
    /\ cpc = "loop"
    /\ ci < Len(coins)
    /\ LET coin == coins[ci + 1] IN
       IF coin.kind = "Quarter"
       THEN /\ cout' = Append(cout, "State quarter from " \o coin.state \o "!")
            /\ count' = count + 1
       ELSE /\ count' = count + 1
            /\ cout' = cout
    /\ ci' = ci + 1
    /\ UNCHANGED <<cpc, coins>>
    /\ UNCHANGED <<daysVars, tempVars>>

\* one iteration of for coin in coins { if let Coin::Quarter(state) = coin ... }
CoinStep ==
    /\ cpc = "loop"
    /\ ci < Len(coins)
    /\ LET coin == coins[ci + 1] IN
       IF coin.kind = "Quarter"
       THEN /\ cout' = Append(cout, "State quarter from " \o coin.state \o "!")
            /\ count' = count
       ELSE /\ count' = count + 1
            /\ cout' = cout
    /\ ci' = ci + 1
    /\ UNCHANGED <<cpc, coins>>
    /\ UNCHANGED <<daysVars, tempVars>>

\* println!("Number of non-quarter coins: {}", count); and main returns
PrintCount ==
    /\ cpc = "loop"
    /\ ci = Len(coins)
    /\ cout' = Append(cout, "Number of non-quarter coins: " \o ToString(count))
    /\ cpc' = "done"
    /\ UNCHANGED <<coins, ci, count>>
    /\ UNCHANGED <<daysVars, tempVars>>

NextCoins == CoinStep \/ PrintCount

(***************************************************************************)
(* examples/temperature/src/main.rs                                        *)
(*                                                                         *)
(* f64 is IEEE 754 binary64.  A value is a record: kind "fin" (finite),    *)
(* "inf" or "nan"; a finite value is (-1)^s * m * 2^e with m a natural     *)
(* number that is odd, or zero with e = 0, so that equal numbers are equal *)
(* records.  m is held as a sequence of limbs, least significant first,    *)
(* because a 53-bit significand and its 106-bit products do not fit the    *)
(* integers of the model checker.  Every operation is computed exactly     *)
(* and then rounded once, to nearest, ties to even, as IEEE 754 defines.   *)
(***************************************************************************)
Base == 2^12
LimbBits == CHOOSE w \in 1..15 : 2^w = Base

Max(a, b) == IF a >= b THEN a ELSE b
Min(a, b) == IF a <= b THEN a ELSE b

\* ---- natural numbers of any size ----
Limb(a, i) == IF i >= 1 /\ i <= Len(a) THEN a[i] ELSE 0

RECURSIVE BStrip(_)
BStrip(a) ==
    IF a = << >> THEN a
    ELSE IF a[Len(a)] = 0 THEN BStrip(SubSeq(a, 1, Len(a) - 1))
    ELSE a

\* carries (or borrows) propagated through column sums; the total is >= 0
RECURSIVE BCarry(_, _, _)
BCarry(cols, i, c) ==
    IF i > Len(cols)
    THEN IF c = 0 THEN << >> ELSE <<c % Base>> \o BCarry(cols, i, c \div Base)
    ELSE LET x == cols[i] + c
         IN  <<x % Base>> \o BCarry(cols, i + 1, x \div Base)

BNorm(cols) == BStrip(BCarry(cols, 1, 0))

BFromNat(n) == BNorm(<<n>>)

BAdd(a, b) == BNorm([i \in 1..Max(Len(a), Len(b)) |-> Limb(a, i) + Limb(b, i)])

\* a - b, for a >= b
BSub(a, b) == BNorm([i \in 1..Max(Len(a), Len(b)) |-> Limb(a, i) - Limb(b, i)])

RECURSIVE MulCol(_, _, _, _)
MulCol(a, b, k, i) ==
    IF i > Len(a) \/ i > k THEN 0
    ELSE a[i] * Limb(b, k - i + 1) + MulCol(a, b, k, i + 1)

BMul(a, b) ==
    IF a = << >> \/ b = << >> THEN << >>
    ELSE BNorm([k \in 1..(Len(a) + Len(b) - 1) |-> MulCol(a, b, k, 1)])

\* -1, 0, 1 as a < b, a = b, a > b
BCmp(a, b) ==
    IF Len(a) # Len(b) THEN (IF Len(a) < Len(b) THEN -1 ELSE 1)
    ELSE LET D == {i \in 1..Len(a) : a[i] # b[i]}
         IN  IF D = {} THEN 0
             ELSE LET i == CHOOSE x \in D : \A y \in D : y <= x
                  IN  IF a[i] < b[i] THEN -1 ELSE 1

\* a * 2^k
BShl(a, k) ==
    IF a = << >> THEN a
    ELSE [i \in 1..(k \div LimbBits) |-> 0]
         \o BNorm([i \in 1..Len(a) |-> a[i] * 2^(k % LimbBits)])

\* floor(a / 2^k)
BShr(a, k) ==
    LET q == k \div LimbBits
        r == k % LimbBits
        n == Len(a) - q
    IN  IF n <= 0 THEN << >>
        ELSE BStrip([i \in 1..n |->
                 (a[i + q] \div 2^r) + (Limb(a, i + q + 1) % 2^r) * 2^(LimbBits - r)])

\* bit k of a (bit 0 is the least significant)
BBit(a, k) == (Limb(a, (k \div LimbBits) + 1) \div 2^(k % LimbBits)) % 2

\* the k low bits of a are all zero
BLowZero(a, k) ==
    /\ \A i \in 1..(k \div LimbBits) : Limb(a, i) = 0
    /\ Limb(a, (k \div LimbBits) + 1) % 2^(k % LimbBits) = 0

BBitLen(a) ==
    IF a = << >> THEN 0
    ELSE (Len(a) - 1) * LimbBits
         + (CHOOSE n \in 1..LimbBits : 2^n > a[Len(a)] /\ 2^(n - 1) <= a[Len(a)])

\* number of trailing zero bits of a # 0
BTrailingZeros(a) ==
    LET j == CHOOSE x \in 1..Len(a) : a[x] # 0 /\ \A y \in 1..(x - 1) : a[y] = 0
    IN  (j - 1) * LimbBits
        + (CHOOSE n \in 0..(LimbBits - 1) : a[j] % 2^n = 0 /\ a[j] % 2^(n + 1) # 0)

\* a mod n for a small n > 0
RECURSIVE BModSmall(_, _)
BModSmall(a, n) ==
    IF a = << >> THEN 0
    ELSE (BModSmall(Tail(a), n) * (Base % n) + (Head(a) % n)) % n

\* <<floor(a / d), a mod d>> for a divisor d of one limb, 0 < d < Base:
\* short division, from the most significant limb down
RECURSIVE BDivLimbs(_, _)
BDivLimbs(a, d) ==
    IF a = << >> THEN << << >>, 0 >>
    ELSE LET up == BDivLimbs(Tail(a), d)
             x  == up[2] * Base + Head(a)
         IN  << <<x \div d>> \o up[1], x % d >>

BDivMod(a, d) == LET qr == BDivLimbs(a, d) IN <<BStrip(qr[1]), qr[2]>>

\* ---- exact dyadic numbers ----
NoValue == [kind |-> "none"]
NaN == [kind |-> "nan"]
Infinity(s) == [kind |-> "inf", s |-> s]

Dyadic(s, m, e) ==
    IF m = << >> THEN [kind |-> "fin", s |-> s, m |-> << >>, e |-> 0]
    ELSE LET tz == BTrailingZeros(m)
         IN  [kind |-> "fin", s |-> s, m |-> BShr(m, tz), e |-> e + tz]

DNeg(x) == [x EXCEPT !.s = 1 - x.s]

DAdd(x, y) ==
    LET e0 == Min(x.e, y.e)
        a == BShl(x.m, x.e - e0)
        b == BShl(y.m, y.e - e0)
        c == BCmp(a, b)
    IN  IF x.s = y.s THEN Dyadic(x.s, BAdd(a, b), e0)
        ELSE IF c = 0 THEN Dyadic(0, << >>, 0)
        ELSE IF c > 0 THEN Dyadic(x.s, BSub(a, b), e0)
        ELSE Dyadic(y.s, BSub(b, a), e0)

DSub(x, y) == DAdd(x, DNeg(y))

DMul(x, y) == Dyadic((x.s + y.s) % 2, BMul(x.m, y.m), x.e + y.e)

\* ---- f64: the exact result rounded to 53 bits, exponents -1074 .. 1023 ----
Round64(s, m, e) ==
    IF m = << >> THEN Dyadic(s, m, e)
    ELSE LET sh == Max(Max(0, BBitLen(m) - 53), (-1074) - e)
             q  == BShr(m, sh)
             up == /\ sh > 0
                   /\ BBit(m, sh - 1) = 1
                   /\ (~BLowZero(m, sh - 1) \/ BBit(q, 0) = 1)
             r  == IF up THEN BAdd(q, <<1>>) ELSE q
         IN  IF BBitLen(r) + e + sh > 1024 THEN Infinity(s)
             ELSE Dyadic(s, r, e + sh)

\* a literal such as 32.0, 5.0, 9.0
Lit(n) == Dyadic(IF n < 0 THEN 1 ELSE 0, BFromNat(IF n < 0 THEN -n ELSE n), 0)

\* x - y
FSub(x, y) ==
    IF x.kind = "nan" \/ y.kind = "nan" THEN NaN
    ELSE IF x.kind = "inf"
         THEN (IF y.kind = "inf" /\ y.s = x.s THEN NaN ELSE x)
    ELSE IF y.kind = "inf" THEN Infinity(1 - y.s)
    ELSE LET d == DSub(x, y) IN Round64(d.s, d.m, d.e)

\* x * y
FMul(x, y) ==
    IF x.kind = "nan" \/ y.kind = "nan" THEN NaN
    ELSE IF x.kind = "inf" \/ y.kind = "inf"
         THEN (IF (x.kind = "fin" /\ x.m = << >>) \/ (y.kind = "fin" /\ y.m = << >>)
               THEN NaN
               ELSE Infinity((x.s + y.s) % 2))
    ELSE LET d == DMul(x, y) IN Round64(d.s, d.m, d.e)

\* x / y for a divisor whose significand is one limb (9.0 is 9 * 2^0): a
\* quotient of at least 55 bits, its lowest bit set when the division left a
\* remainder, rounded once
FDiv(x, y) ==
    IF x.kind = "nan" \/ y.kind = "nan" THEN NaN
    ELSE IF x.kind = "inf"
         THEN (IF y.kind = "inf" THEN NaN ELSE Infinity((x.s + y.s) % 2))
    ELSE IF y.kind = "inf" THEN Dyadic((x.s + y.s) % 2, << >>, 0)
    ELSE IF y.m = << >>
         THEN (IF x.m = << >> THEN NaN ELSE Infinity((x.s + y.s) % 2))
    ELSE LET p  == Max(0, 55 + BBitLen(y.m) - BBitLen(x.m))
             qr == BDivMod(BShl(x.m, p), y.m[1])
             m  == BAdd(BShl(qr[1], 1), IF qr[2] = 0 THEN << >> ELSE <<1>>)
         IN  Round64((x.s + y.s) % 2, m, x.e - y.e - p - 1)

\* the factor inverted: (temperature - 32.0) * (9.0 / 5.0)
fahrenheit_to_celsius_inverted(temp) ==
    FMul(FSub(temp, Lit(32)), FDiv(Lit(9), Lit(5)))

\* the same formula associated the other way: (temperature - 32.0) * 5.0 / 9.0
fahrenheit_to_celsius_regrouped(temp) ==
    FDiv(FMul(FSub(temp, Lit(32)), Lit(5)), Lit(9))

\* fn fahrenheit_to_celsius_v1(temperature: f64) -> f64
fahrenheit_to_celsius_v1(temp) ==
    FMul(FSub(temp, Lit(32)), FDiv(Lit(5), Lit(9)))

\* fn fahrenheit_to_celsius_v2(temperature: f64) -> f64
fahrenheit_to_celsius_v2(temp) ==
    FMul(FSub(temp, Lit(32)), FDiv(Lit(5), Lit(9)))

\* ---- the arguments the functions are called with ----
\* largest m of an argument m * 2^e, and largest d of an argument 2^e - d
MaxMant == 40
\* exponents e of the arguments run over -MaxNegExp .. MaxExp
MaxNegExp == 3
MaxExp == 62

IsF64(x) == x.kind # "fin" \/ BBitLen(x.m) <= 53

Inputs ==
    {Dyadic(s, BFromNat(m), e) :
        s \in 0..1, m \in 0..MaxMant, e \in (-MaxNegExp)..MaxExp}
    \cup {x \in {DSub(Dyadic(s, <<1>>, e), Dyadic(s, BFromNat(d), 0)) :
                    s \in 0..1, d \in 1..MaxMant, e \in 6..MaxExp} : IsF64(x)}
    \cup {NaN, Infinity(0), Infinity(1)}

\* a call of fahrenheit_to_celsius_v1(temperature)
CallV1 ==
    /\ temperature # NoValue
    /\ r1' = fahrenheit_to_celsius_v1(temperature)
    /\ UNCHANGED <<temperature, r2>>
    /\ UNCHANGED <<daysVars, coinVars>>

\* a call of fahrenheit_to_celsius_v2(temperature)
CallV2 ==
    /\ temperature # NoValue
    /\ r2' = fahrenheit_to_celsius_v2(temperature)
    /\ UNCHANGED <<temperature, r1>>
    /\ UNCHANGED <<daysVars, coinVars>>

NextTemp == CallV1 \/ CallV2

(***************************************************************************)
(* Specifications: one per program; the other programs' variables rest.    *)
(***************************************************************************)
\* the twelve-days program at the entry of main, tables as defined
InitDays ==
    /\ pc = "title"
    /\ day = 0
    /\ line = 0
    /\ out = << >>
    /\ runs = 1
    /\ days = DAYS
    /\ lyrics = LYRICS
    /\ cpc = "idle"
    /\ coins = << >>
    /\ ci = 0
    /\ count = 0
    /\ cout = << >>
    /\ temperature = NoValue
    /\ r1 = NoValue
    /\ r2 = NoValue

\* the coins program at the head of its loop: let mut count = 0; let coins = vec![...]
InitCoins ==
    /\ pc = "idle"
    /\ day = 0
    /\ line = 0
    /\ out = << >>
    /\ runs = 0
    /\ days = DAYS
    /\ lyrics = LYRICS
    /\ cpc = "loop"
    /\ coins \in CoinLists
    /\ ci = 0
    /\ count = 0
    /\ cout = << >>
    /\ temperature = NoValue
    /\ r1 = NoValue
    /\ r2 = NoValue

\* the temperature functions before any call, for one argument
InitTemp ==
    /\ pc = "idle"
    /\ day = 0
    /\ line = 0
    /\ out = << >>
    /\ runs = 0
    /\ days = DAYS
    /\ lyrics = LYRICS
    /\ cpc = "idle"
    /\ coins = << >>
    /\ ci = 0
    /\ count = 0
    /\ cout = << >>
    /\ temperature \in Inputs
    /\ r1 = NoValue
    /\ r2 = NoValue

SpecDays == InitDays /\ [][NextDays]_vars

FairSpecDays == SpecDays /\ WF_vars(MainStep)

SpecCoins == InitCoins /\ [][NextCoins]_vars

SpecTemp == InitTemp /\ [][NextTemp]_vars

(***************************************************************************)
(* What the twelve-days program is claimed to write.                       *)
(***************************************************************************)
HeaderOf(i) == "On the " \o DAYS[i + 1] \o " day of Christmas my true love sent to me"

\* LYRICS[i], LYRICS[i-1], ..., LYRICS[0]
VerseOf(i) == [j \in 1..(i + 1) |-> LYRICS[i + 2 - j]]

BlockOf(i) == <<"", HeaderOf(i)>> \o VerseOf(i)

\* the day blocks 0 .. n-1, one after the other
RECURSIVE BlocksUpTo(_)
BlocksUpTo(n) == IF n = 0 THEN << >> ELSE BlocksUpTo(n - 1) \o BlockOf(n - 1)

TitleLines == <<"The Twelve Days of Christmas", "----------------------------">>

FullRun == TitleLines \o BlocksUpTo(TOTAL_DAYS)

\* lines of one run: two title lines, and a blank, a header and i+1 verse lines per day
RunLength == 2 + 3 * TOTAL_DAYS + (TOTAL_DAYS * (TOTAL_DAYS - 1)) \div 2

IsHeader(s) == \E i \in 0..(TOTAL_DAYS - 1) : s = HeaderOf(i)
IsBlank(s) == s = ""

\* day blocks begun so far, over all runs
BlocksBegun ==
    (runs - 1) * TOTAL_DAYS
    + (CASE pc \in {"title", "rule"} -> 0
         [] pc \in {"for_day", "blank", "header"} -> day
         [] pc = "lyrics" -> day + 1
         [] OTHER -> TOTAL_DAYS)

\* C1: while print_lyrics(day) runs, the lines it has written after the header
\* are LYRICS[day], LYRICS[day-1], ... down to the line before the cursor, and
\* when it has returned the block after the header of day i is exactly the
\* i+1 lines LYRICS[i], ..., LYRICS[0] (one line for day 0, all N for day N-1).
C1_VerseBlock ==
    /\ pc = "lyrics" =>
          LET k == day - line
              n == Len(out)
          IN  /\ k >= 0
              /\ n > k
              /\ IsHeader(out[n - k])
              /\ SubSeq(out, n - k + 1, n) = SubSeq(VerseOf(day), 1, k)
    /\ (pc = "for_day" /\ day > 0) =>
          LET i == day - 1
              n == Len(out)
          IN  /\ n >= i + 2
              /\ IsHeader(out[n - i - 1])
              /\ SubSeq(out, n - i, n) = VerseOf(i)
              /\ \A j \in 0..i : out[n - i + j] = LYRICS[i - j + 1]

C1_Witness ==
    /\ pc = "for_day"
    /\ day = TOTAL_DAYS
    /\ Len(out) > TOTAL_DAYS
    /\ out[Len(out)] = "A partridge in a pear tree"
    /\ out[Len(out) - TOTAL_DAYS + 1] = "Twelve drummers drumming"
    /\ IsHeader(out[Len(out) - TOTAL_DAYS])

\* C2: the header lines written are those of days 0, 1, ..., in ascending order
\* with none skipped or repeated, N per run; each header line comes right
\* after exactly one blank line; and no other blank line is written.
C2_DayBlocks ==
    LET headers == SelectSeq(out, IsHeader)
        blanks  == SelectSeq(out, IsBlank)
    IN  /\ Len(headers) = BlocksBegun
        /\ \A k \in 1..Len(headers) : headers[k] = HeaderOf((k - 1) % TOTAL_DAYS)
        /\ \A p \in 1..Len(out) :
              IsHeader(out[p]) => p >= 3 /\ out[p - 1] = "" /\ out[p - 2] # ""
        /\ Len(blanks) = BlocksBegun + (IF pc = "header" THEN 1 ELSE 0)
        /\ pc = "done" => Len(headers) = runs * TOTAL_DAYS

C2_Witness ==
    /\ pc = "done"
    /\ runs = 1
    /\ Len(SelectSeq(out, IsHeader)) = TOTAL_DAYS
    /\ Len(SelectSeq(out, IsBlank)) = TOTAL_DAYS

\* C3: the header line print_first_verse_line(day) writes is "On the ",
\* DAYS[day], " day of Christmas my true love sent to me", and the verse
\* that follows starts at the same index: LYRICS[day] is the next line.
C3_Header ==
    pc = "lyrics" =>
        /\ Len(out) > day - line
        /\ out[Len(out) - (day - line)]
              = "On the " \o DAYS[day + 1] \o " day of Christmas my true love sent to me"
        /\ line = day => out[Len(out)] = HeaderOf(day)
        /\ line < day => out[Len(out) - (day - line) + 1] = LYRICS[day + 1]

C3_Witness ==
    /\ pc = "lyrics"
    /\ day = TOTAL_DAYS - 1
    /\ line = day
    /\ out[Len(out)] = "On the twelfth day of Christmas my true love sent to me"

\* C4 as claimed: the lines written by one run are exactly the day blocks
\* (blank line, header, verse lines) of days 0 .. N-1 and nothing else.
C4_OnlyDayBlocks ==
    (pc = "done" /\ runs = 1) => out = BlocksUpTo(TOTAL_DAYS)

\* C4 as amended: the lines written by one run are exactly the title line
\* and the rule line followed by the day blocks of days 0 .. N-1, and at any
\* moment of the run what has been written is a prefix of that.
C4_TitleThenDayBlocks ==
    /\ runs = 1 => Len(out) <= Len(FullRun) /\ out = SubSeq(FullRun, 1, Len(out))
    /\ (pc = "done" /\ runs = 1) => out = FullRun

C4_Witness ==
    /\ pc = "done"
    /\ runs = 1
    /\ out[1] = "The Twelve Days of Christmas"
    /\ out[3] = ""
    /\ out[Len(out)] = "A partridge in a pear tree"

\* C5: every run writes the same RunLength lines: when a run starts the
\* earlier runs have written RunLength lines each, when it ends its lines
\* repeat those of the run before, no step changes a line already written,
\* and no step changes DAYS or LYRICS.
C5_NoStateAcrossRuns ==
    /\ [](pc = "title" => Len(out) = (runs - 1) * RunLength)
    /\ [](pc = "done" =>
            /\ Len(out) = runs * RunLength
            /\ \A k \in (RunLength + 1)..Len(out) : out[k] = out[k - RunLength])
    /\ [][/\ days' = days
          /\ lyrics' = lyrics
          /\ Len(out') >= Len(out)
          /\ SubSeq(out', 1, Len(out)) = out]_vars
    /\ [](days = DAYS /\ lyrics = LYRICS)

C5_Witness ==
    /\ pc = "done"
    /\ runs = 2
    /\ Len(out) = 2 * RunLength
    /\ SubSeq(out, 1, RunLength) = SubSeq(out, RunLength + 1, 2 * RunLength)

\* C6: every run of main that starts ends; no panic state is reached; and
\* main has returned only when all N day blocks of the run are written, the
\* last line being LYRICS[0] of day N-1.
C6_Terminates ==
    /\ (pc = "title") ~> (pc = "done")
    /\ [](pc # "panic")
    /\ [](pc = "done" =>
            /\ day = TOTAL_DAYS
            /\ Len(SelectSeq(out, IsHeader)) = runs * TOTAL_DAYS
            /\ Len(out) >= TOTAL_DAYS + 1
            /\ SubSeq(out, Len(out) - TOTAL_DAYS, Len(out))
                  = <<HeaderOf(TOTAL_DAYS - 1)>> \o VerseOf(TOTAL_DAYS - 1))

C6_Witness ==
    /\ pc = "done"
    /\ day = TOTAL_DAYS
    /\ out[Len(out)] = LYRICS[1]

\* C10: no table is read out of bounds: the day index is in 0 .. N-1 wherever
\* it is used, the line index is in 0 .. day inside print_lyrics and never
\* goes below 0, no panic state is reached, and both tables have N entries.
C10_IndexInBounds ==
    /\ Len(days) = TOTAL_DAYS
    /\ Len(lyrics) = TOTAL_DAYS
    /\ pc # "panic"
    /\ day >= 0
    /\ line >= 0
    /\ pc \in {"blank", "header", "lyrics"} => day < TOTAL_DAYS
    /\ pc = "header" => InBounds(days, day)
    /\ pc = "lyrics" => line <= day /\ InBounds(lyrics, line)

C10_Witness ==
    /\ pc = "for_day"
    /\ day = TOTAL_DAYS
    /\ line = 0
    /\ out[Len(out)] = lyrics[1]

(***************************************************************************)
(* What the coins program is claimed to do.                                *)
(***************************************************************************)
IsQuarter(c) == c.kind = "Quarter"
IsNotQuarter(c) == c.kind # "Quarter"

QuarterLines(seq) ==
    LET q == SelectSeq(seq, IsQuarter)
    IN  [i \in 1..Len(q) |-> "State quarter from " \o q[i].state \o "!"]

\* C9: count is the number of non-quarter coins among those consumed so far
\* (0 at the start, one more per Penny, Nickel or Dime, the same after a
\* Quarter); the lines written are one per Quarter consumed, with its state,
\* in order; the count line is written last, with the number of non-quarter
\* coins of the whole list, which is 3 for the built-in list.
C9_Coins ==
    LET seen == SubSeq(coins, 1, ci)
    IN  /\ count = Len(SelectSeq(seen, IsNotQuarter))
        /\ count = Cardinality({i \in 1..ci : coins[i] \in {Penny, Nickel, Dime}})
        /\ cpc = "loop" => cout = QuarterLines(seen)
        /\ cpc = "done" =>
              /\ ci = Len(coins)
              /\ cout = Append(QuarterLines(coins),
                               "Number of non-quarter coins: "
                               \o ToString(Len(SelectSeq(coins, IsNotQuarter))))
        /\ (cpc = "done" /\ coins = BuiltInCoins) =>
              cout = << "State quarter from Alabama!",
                        "State quarter from Alaska!",
                        "Number of non-quarter coins: 3" >>

C9_Witness ==
    /\ cpc = "done"
    /\ coins = BuiltInCoins
    /\ count = 3
    /\ Len(cout) = 3

(***************************************************************************)
(* What the temperature functions are claimed to return.                   *)
(***************************************************************************)
\* C7: whenever both functions have been called with the argument, they
\* returned the same value, the f64 value of (t - 32) * (5 / 9); a call
\* changes neither the argument nor what the other function returned, and a
\* repeated call returns what the call before returned.
C7_Equivalent ==
    /\ []((r1 # NoValue /\ r2 # NoValue) => r1 = r2)
    /\ [](r1 # NoValue =>
            r1 = FMul(FSub(temperature, Lit(32)), FDiv(Lit(5), Lit(9))))
    /\ [][/\ temperature' = temperature
          /\ r1 # NoValue => r1' = r1
          /\ r2 # NoValue => r2' = r2]_vars

C7_Witness ==
    /\ temperature = Lit(0)
    /\ r1 # NoValue
    /\ r1 = r2
    /\ r1.kind = "fin"
    /\ r1.s = 1

\* t - 32 as a number, exactly
Excess(t) == DSub(t, Lit(32))

\* t is 32 + 9k for an integer k
IsThirtyTwoPlusNines(t) ==
    /\ t.kind = "fin"
    /\ t.e >= 0
    /\ BModSmall(Excess(t).m, 9) = 0

\* r is 5k, where t = 32 + 9k: 9 r = 5 (t - 32), exactly
IsFiveK(t, r) ==
    /\ r.kind = "fin"
    /\ DMul(Lit(9), r) = DMul(Lit(5), Excess(t))

\* |t - 32| <= 2^53
ExcessWithin53Bits(t) ==
    BCmp(BShl(Excess(t).m, Excess(t).e), BShl(<<1>>, 53)) <= 0

\* C8 as claimed: for every argument 32 + 9k with k an integer, each function
\* returns exactly 5k (0 for 32, 20 for 68).
C8_ExactForAllK ==
    \A r \in {r1, r2} :
        (r # NoValue /\ IsThirtyTwoPlusNines(temperature)) => IsFiveK(temperature, r)

\* r is the f64 nearest to 5k, where t = 32 + 9k
IsNearestToFiveK(t, r) ==
    LET d == DMul(Lit(5), Excess(t))
    IN  r = Round64(d.s, BDivMod(BShl(d.m, d.e), 9)[1], 0)

\* C8 read loosely, the result compared with the f64 nearest to 5k where 5k
\* is no f64: this fails as well (at 11 * 2^58, for one).
C8_NearestForAllK ==
    \A r \in {r1, r2} :
        (r # NoValue /\ IsThirtyTwoPlusNines(temperature))
            => IsNearestToFiveK(temperature, r)

\* C8 as amended: each function returns exactly 0 for 32 and exactly 20 for
\* 68, and for every argument 32 + 9k with k an integer and |9k| <= 2^53 it
\* returns exactly 5k.
C8_ExactUpTo53Bits ==
    \A r \in {r1, r2} :
        r # NoValue =>
            /\ temperature = Lit(32) => r = Lit(0)
            /\ temperature = Lit(68) => r = Lit(20)
            /\ (IsThirtyTwoPlusNines(temperature) /\ ExcessWithin53Bits(temperature))
                  => IsFiveK(temperature, r)

C8_Witness ==
    /\ temperature = Lit(68)
    /\ r1 = Lit(20)
    /\ r2 = Lit(20)

====
